---- MODULE Spec2Model ----
(***************************************************************************)
(* Code-Ride client-side bootstrap: the ComponentsModule of                *)
(* js/components.js and the DOMContentLoaded handler of js/main.js.        *)
(*                                                                         *)
(* One behaviour is one page load.  The page is served with one of the two *)
(* scripts (variable script).  A file name is a sequence of tokens in      *)
(* which ".html" is a token of its own, so that String.replace('.html','') *)
(* is the removal of the first such token, and a pathname is the sequence  *)
(* of its '/'-separated segments.  An element's class list is a set of     *)
(* class names.  An uncaught exception is recorded in errors by the name   *)
(* of the task it escaped from.                                            *)
(***************************************************************************)
EXTENDS Naturals, Sequences, FiniteSets, TLC

VARIABLES
    script,      \* "components" (js/components.js) or "main" (js/main.js)
    pathname,    \* window.location.pathname, as its sequence of segments
    page,        \* ids of the elements of the page's own markup
    headerFrag,  \* ids of the elements of components/header.html
    footerFrag,  \* page keys of the .nav-button controls of components/footer.html
    pc,          \* position of the bootstrap
    fetches,     \* per fragment: state of its fetch
    fetchCount,  \* per fragment: number of fetch() calls issued
    content,     \* per placeholder: "empty" or "markup" (innerHTML)
    loaded,      \* per fragment: "unset", "true" or "false" (headerLoaded, footerLoaded)
    calls,       \* per initializer: number of times it was called
    wired,       \* names of the event listeners that are attached
    classes,     \* per element id: its classList
    navActive,   \* page keys of the nav controls that carry nav-active
    isDriverMode,\* the closure variable of initializePageSpecifics
    href,        \* "none", or the target assigned to window.location.href
    prevented,   \* event.preventDefault() was called on the last event
    errors       \* names of the tasks an exception escaped from

vars == <<script, pathname, page, headerFrag, footerFrag, pc, fetches, fetchCount,
          content, loaded, calls, wired, classes, navActive,
          isDriverMode, href, prevented, errors>>

(***************************************************************************)
(* Bounds of the model.                                                    *)
(***************************************************************************)
MaxDirs == 1   \* directory segments in front of the file name: 0..MaxDirs

MaxExt == 1    \* ".html" tokens at the end of a file name: 0..MaxExt

(***************************************************************************)
(* Names.                                                                  *)
(***************************************************************************)
HTML == ".html"

Fragments == {"header", "footer"}

Placeholder(c) == IF c = "header" THEN "header-placeholder" ELSE "footer-placeholder"

ModeElems == {"riderModeBtn", "driverModeBtn", "riderView", "driverView"}

FormElems == {"loginForm", "createAccountForm", "verifyCodeForm"}

PlaceholderElems == {"header-placeholder", "footer-placeholder"}

PageElems == PlaceholderElems \cup ModeElems \cup FormElems

MenuElems == {"sideMenu", "menuToggle", "menuIcon", "closeIcon"}

HeaderElems == MenuElems \cup {"logoutButton"}

Elems == PageElems \cup HeaderElems

ActiveStyle == {"text-blue-600", "border-b-2", "border-blue-600"}

InactiveStyle == {"text-gray-500"}

AUTH_PAGES == {<<"login", HTML>>, <<"create-account", HTML>>, <<"verify-code", HTML>>}

accountSubPages ==
    {"profile", "ride-history", "payment-methods", "ratings-reviews", "support", "promotions"}

Initializers ==
    {"initializeSideMenu", "updateActiveNav", "initializePageSpecifics",
     "setupAuthForms", "setupLogout"}


(***************************************************************************)
(* Pure helpers.                                                           *)
(***************************************************************************)
Last(s) == s[Len(s)]

\* String.prototype.replace(tok, ''): the first occurrence only.
RECURSIVE RemoveFirst(_, _)
RemoveFirst(s, tok) ==
    IF s = <<>> THEN <<>>
    ELSE IF Head(s) = tok THEN Tail(s)
    ELSE <<Head(s)>> \o RemoveFirst(Tail(s), tok)

\* components.js: path.split('/').pop() || 'index.html'.  The file: branch
\* splits on a backslash first; a URL pathname holds none, so it is the
\* same segment sequence.
getCurrentPageFileName(path) ==
    IF Last(path) = <<>> THEN <<"index", HTML>> ELSE Last(path)

\* main.js: window.location.pathname.split('/').pop(), no default.
currentPageFileName(path) == Last(path)

FileNameOf(s, path) ==
    IF s = "components" THEN getCurrentPageFileName(path) ELSE currentPageFileName(path)

\* Variant: the file name is matched by its stem, whatever follows it.
IsAuthPage_ByStem(s, path) ==
    \E a \in AUTH_PAGES :
        FileNameOf(s, path) # <<>> /\ Head(FileNameOf(s, path)) = Head(a)

\* Variant: only the login page is recognised.
IsAuthPage_LoginOnly(s, path) == FileNameOf(s, path) = <<"login", HTML>>

IsAuthPage(s, path) == FileNameOf(s, path) \in AUTH_PAGES

\* Variant: index.html is stripped like any other name.
NormalizePage_NoHome(file) ==
    IF file = <<>> THEN <<"home">> ELSE RemoveFirst(file, HTML)

\* updateActiveNav, the normalisation of the current page name.
NormalizePage(file) ==
    IF file = <<>> \/ file = <<"index", HTML>> THEN <<"home">>
    ELSE RemoveFirst(file, HTML)

\* updateActiveNav, the forEach body: does the control keyed key end up active?
NavMatches(key, cur) ==
    \/ <<key>> = cur
    \/ key = "account" /\ \E sp \in accountSubPages : cur = <<sp>>

\* Variant: a control that does not match keeps the marker it had.
updateActiveNav_KeepsMarker(file, keys, active) ==
    {k \in keys : NavMatches(k, NormalizePage(file)) \/ k \in active}

\* updateActiveNav over the controls in the document: the keys left active.
\* The marker is added to a control that matches and removed from one that
\* does not, so the markers the markup came with (active) do not count.
updateActiveNav(file, keys, active) ==
    {k \in keys : IF NavMatches(k, NormalizePage(file)) THEN TRUE ELSE FALSE}

\* classList.add / remove / toggle
ApplyOp(op, cl, names) ==
    IF op = "add" THEN cl \cup names
    ELSE IF op = "remove" THEN cl \ names
    ELSE (cl \ names) \cup (names \ cl)

\* A straight-line run of classList operations <<element, op, names>> on the
\* elements dom holds: an absent element is null, and the access throws there.
RECURSIVE RunOps(_, _, _)
RunOps(ops, cl, dom) ==
    IF ops = <<>> THEN [classes |-> cl, threw |-> FALSE]
    ELSE LET o == Head(ops) IN
         IF o[1] \notin dom THEN [classes |-> cl, threw |-> TRUE]
         ELSE RunOps(Tail(ops), [cl EXCEPT ![o[1]] = ApplyOp(o[2], @, o[3])], dom)

\* Variant: the driver branch does not hide the rider view.
updateModeUI_NoHide(driver) ==
    IF ~driver
    THEN << <<"riderView", "remove", {"hidden"}>>,
            <<"driverView", "add", {"hidden"}>>,
            <<"riderModeBtn", "add", ActiveStyle>>,
            <<"riderModeBtn", "remove", InactiveStyle>>,
            <<"driverModeBtn", "add", InactiveStyle>>,
            <<"driverModeBtn", "remove", ActiveStyle>> >>
    ELSE << <<"driverView", "remove", {"hidden"}>>,
            <<"driverModeBtn", "add", ActiveStyle>>,
            <<"driverModeBtn", "remove", InactiveStyle>>,
            <<"riderModeBtn", "add", InactiveStyle>>,
            <<"riderModeBtn", "remove", ActiveStyle>> >>

\* Variant: the button styling is toggled instead of set.
updateModeUI_Toggle(driver) ==
    IF ~driver
    THEN << <<"riderView", "remove", {"hidden"}>>,
            <<"driverView", "add", {"hidden"}>>,
            <<"riderModeBtn", "toggle", ActiveStyle>>,
            <<"riderModeBtn", "remove", InactiveStyle>>,
            <<"driverModeBtn", "add", InactiveStyle>>,
            <<"driverModeBtn", "remove", ActiveStyle>> >>
    ELSE << <<"driverView", "remove", {"hidden"}>>,
            <<"riderView", "add", {"hidden"}>>,
            <<"driverModeBtn", "toggle", ActiveStyle>>,
            <<"driverModeBtn", "remove", InactiveStyle>>,
            <<"riderModeBtn", "add", InactiveStyle>>,
            <<"riderModeBtn", "remove", ActiveStyle>> >>

\* updateModeUI: the statements of the branch taken.
updateModeUI(driver) ==
    IF ~driver
    THEN << <<"riderView", "remove", {"hidden"}>>,
            <<"driverView", "add", {"hidden"}>>,
            <<"riderModeBtn", "add", ActiveStyle>>,
            <<"riderModeBtn", "remove", InactiveStyle>>,
            <<"driverModeBtn", "add", InactiveStyle>>,
            <<"driverModeBtn", "remove", ActiveStyle>> >>
    ELSE << <<"driverView", "remove", {"hidden"}>>,
            <<"riderView", "add", {"hidden"}>>,
            <<"driverModeBtn", "add", ActiveStyle>>,
            <<"driverModeBtn", "remove", InactiveStyle>>,
            <<"riderModeBtn", "add", InactiveStyle>>,
            <<"riderModeBtn", "remove", ActiveStyle>> >>

\* initializeSideMenu, the toggle button's click listener.
toggleMenu ==
    << <<"sideMenu", "toggle", {"hidden"}>>,
       <<"menuIcon", "toggle", {"hidden"}>>,
       <<"closeIcon", "toggle", {"hidden"}>> >>

\* Variant: the document listener hides the panel and leaves the icons.
closeMenu_PanelOnly == << <<"sideMenu", "add", {"hidden"}>> >>

\* initializeSideMenu, the body of the document listener's if.
closeMenu ==
    << <<"sideMenu", "add", {"hidden"}>>,
       <<"menuIcon", "remove", {"hidden"}>>,
       <<"closeIcon", "add", {"hidden"}>> >>

(***************************************************************************)
(* The document.                                                           *)
(***************************************************************************)
\* The elements getElementById finds: the page's own, and the header
\* fragment's once it is the header placeholder's innerHTML.
DomOf(pg, hf, cont) == pg \cup (IF cont["header"] = "markup" THEN hf ELSE {})

Dom == DomOf(page, headerFrag, content)

\* The page keys querySelectorAll('#bottomNav .nav-button') finds.
NavKeysOf(ff, cont) == IF cont["footer"] = "markup" THEN ff.keys ELSE {}

\* Variant: the response status is not looked at.
loadComponent_AnyStatus(outcome, target, pg) ==
    [ok |-> outcome \in {"ok", "http_error"} /\ target \in pg, threw |-> FALSE]

\* Variant: no try/catch around the fetch.
loadComponent_NoCatch(outcome, target, pg) ==
    [ok |-> outcome = "ok" /\ target \in pg, threw |-> outcome # "ok"]

\* loadComponent for a fetch that settled with outcome: ok is the value it
\* returns, threw whether an exception leaves it.  The rejected fetch, the
\* Error thrown on !response.ok and a rejected response.text() all land in
\* its catch block, which returns false.
loadComponent(outcome, target, pg) ==
    [ok |-> outcome = "ok" /\ target \in pg, threw |-> FALSE]

\* innerHTML of a placeholder after a load that returned ok.
Inject(cont, c, ok) == IF ok THEN [cont EXCEPT ![c] = "markup"] ELSE cont

\* initializeSideMenu: the listeners it attaches.
initializeSideMenu(dom) ==
    (IF "menuToggle" \in dom THEN {<<"menuToggle", "click">>} ELSE {})
        \cup {<<"document", "outside">>}

\* initializePageSpecifics: listeners first, then the initial updateModeUI().
initializePageSpecifics(cl, dom) ==
    IF "riderModeBtn" \in dom /\ "driverModeBtn" \in dom
    THEN LET r == RunOps(updateModeUI(FALSE), cl, dom) IN
         [classes |-> r.classes, threw |-> r.threw,
          wired |-> {<<"riderModeBtn", "click">>, <<"driverModeBtn", "click">>}]
    ELSE [classes |-> cl, threw |-> FALSE, wired |-> {}]

\* setupAuthForms: a submit listener on each form that exists.
setupAuthForms(dom) == {<<f, "submit">> : f \in FormElems \cap dom}

\* setupLogout: the document-level click listener.
setupLogout == {<<"document", "logout">>}

\* A boolean as the loaded flag holds it.
Flag(b) == IF b THEN "true" ELSE "false"

Bump(c, names) == [n \in Initializers |-> IF n \in names THEN c[n] + 1 ELSE c[n]]

(***************************************************************************)
(* Pages the model loads.                                                  *)
(***************************************************************************)
Stems ==
    {"index", "login", "create-account", "verify-code", "home", "account", "wallet"}
        \cup accountSubPages

RECURSIVE Exts(_)
Exts(n) == IF n = 0 THEN <<>> ELSE <<HTML>> \o Exts(n - 1)

FileNames == {<<>>} \cup {<<st>> \o Exts(n) : st \in Stems, n \in 0..MaxExt}

RECURSIVE DirsOf(_)
DirsOf(n) == IF n = 0 THEN <<>> ELSE << <<"pages">> >> \o DirsOf(n - 1)

PathNames == {DirsOf(d) \o <<f>> : d \in 0..MaxDirs, f \in FileNames}

NavKeyUniverse == {"home", "account", "wallet", "profile"}

Footers ==
    UNION {{[keys |-> ks, active |-> a] : a \in {{}, ks}} : ks \in SUBSET NavKeyUniverse}

StdFooter == [keys |-> {"home", "wallet", "account"}, active |-> {"home"}]

\* Markup as shipped: panel closed, rider view shown.
StdClasses ==
    [e \in Elems |->
        IF e \in {"sideMenu", "closeIcon", "driverView"} THEN {"hidden"}
        ELSE IF e = "riderModeBtn" THEN ActiveStyle
        ELSE IF e = "driverModeBtn" THEN InactiveStyle
        ELSE {}]

ButtonStyles == {{}, ActiveStyle, InactiveStyle}

\* Every class-list markup of the four mode elements.
ModeClasses ==
    {[e \in Elems |->
        IF e = "riderView" THEN rv ELSE IF e = "driverView" THEN dv
        ELSE IF e = "riderModeBtn" THEN rb ELSE IF e = "driverModeBtn" THEN db
        ELSE StdClasses[e]] :
     rv \in SUBSET {"hidden"}, dv \in SUBSET {"hidden"},
     rb \in ButtonStyles, db \in ButtonStyles}

\* Pages that lack any subset of one group of expected elements.
DomShapes ==
    {<<PageElems \ x, HeaderElems>> : x \in SUBSET ModeElems}
        \cup {<<PageElems \ x, HeaderElems>> : x \in SUBSET FormElems}
        \cup {<<PageElems \ x, HeaderElems>> : x \in SUBSET PlaceholderElems}
        \cup {<<PageElems, HeaderElems \ x>> : x \in SUBSET HeaderElems}
        \cup {<<PlaceholderElems \cup ModeElems, HeaderElems>>,
              <<PlaceholderElems, HeaderElems>>,
              <<{"loginForm"}, HeaderElems>>,
              <<{"createAccountForm"}, HeaderElems>>,
              <<{"verifyCodeForm"}, HeaderElems>>}

ShapePaths ==
    { <<<<"index", HTML>>>>, <<<<>>>>, <<<<"login", HTML>>>>,
      <<<<"pages">>, <<"support", HTML>>>> }

ModePaths == { <<<<"index", HTML>>>>, <<<<"verify-code", HTML>>>> }

Init ==
    /\ script \in {"components", "main"}
    /\ \/ /\ pathname \in ShapePaths
          /\ \E sh \in DomShapes : page = sh[1] /\ headerFrag = sh[2]
          /\ footerFrag = StdFooter
          /\ classes = StdClasses
       \/ /\ pathname \in PathNames
          /\ page = PlaceholderElems
          /\ headerFrag = HeaderElems
          /\ footerFrag \in Footers
          /\ classes = StdClasses
       \/ /\ pathname \in ModePaths
          /\ page = PageElems
          /\ headerFrag = HeaderElems
          /\ footerFrag = StdFooter
          /\ classes \in ModeClasses
    /\ pc = "load"
    /\ fetches = [c \in Fragments |-> "idle"]
    /\ fetchCount = [c \in Fragments |-> 0]
    /\ content = [c \in Fragments |-> "empty"]
    /\ loaded = [c \in Fragments |-> "unset"]
    /\ calls = [n \in Initializers |-> 0]
    /\ wired = {}
    /\ navActive = {}
    /\ isDriverMode = FALSE
    /\ href = "none"
    /\ prevented = FALSE
    /\ errors = {}

Outcomes == {"ok", "http_error", "network_error", "body_error"}

(***************************************************************************)
(* js/components.js: ComponentsModule.initialize.                          *)
(***************************************************************************)
\* initialize, from the return of loadComponents to its end.
InitializeRest(hl, fl, cont) ==
    LET dom  == DomOf(page, headerFrag, cont)
        file == getCurrentPageFileName(pathname)
        ps   == initializePageSpecifics(classes, dom)
        w1   == IF hl THEN initializeSideMenu(dom) ELSE {}
    IN  /\ navActive' = IF fl THEN updateActiveNav(file, NavKeysOf(footerFrag, cont),
                                                   footerFrag.active)
                        ELSE navActive
        /\ classes' = ps.classes
        /\ IF ps.threw
           THEN /\ wired' = wired \cup w1 \cup ps.wired
                /\ calls' = Bump(calls, (IF hl THEN {"initializeSideMenu"} ELSE {})
                                 \cup (IF fl THEN {"updateActiveNav"} ELSE {})
                                 \cup {"initializePageSpecifics"})
                /\ errors' = errors \cup {"initialize"}
           ELSE /\ wired' = wired \cup w1 \cup ps.wired \cup setupAuthForms(dom)
                                  \cup setupLogout
                /\ calls' = Bump(calls, (IF hl THEN {"initializeSideMenu"} ELSE {})
                                 \cup (IF fl THEN {"updateActiveNav"} ELSE {})
                                 \cup {"initializePageSpecifics", "setupAuthForms",
                                       "setupLogout"})
                /\ errors' = errors
        /\ pc' = "done"

\* DOMContentLoaded: initialize() up to its first suspension.
initialize ==
    /\ script = "components"
    /\ pc = "load"
    /\ href = "none"
    /\ IF IsAuthPage(script, pathname)
       THEN /\ loaded' = [c \in Fragments |-> "false"]
            /\ InitializeRest(FALSE, FALSE, content)
            /\ UNCHANGED <<fetches, fetchCount>>
       ELSE /\ fetches' = [fetches EXCEPT !["header"] = "pending"]
            /\ fetchCount' = [fetchCount EXCEPT !["header"] = @ + 1]
            /\ pc' = "await_header"
            /\ UNCHANGED <<loaded, calls, wired, classes, navActive, errors>>
    /\ UNCHANGED <<script, pathname, page, headerFrag, footerFrag, content,
                   isDriverMode, href, prevented>>

\* The header fetch settles: loadComponent('header') returns and
\* loadComponents goes on to fetch the footer.
HeaderLoaded ==
    /\ script = "components"
    /\ pc = "await_header"
    /\ href = "none"
    /\ \E o \in Outcomes :
        LET r == loadComponent(o, Placeholder("header"), page) IN
        /\ content' = Inject(content, "header", r.ok)
        /\ IF r.threw
           THEN /\ fetches' = [fetches EXCEPT !["header"] = o]
                /\ errors' = errors \cup {"initialize"}
                /\ pc' = "done"
                /\ UNCHANGED <<fetchCount, loaded>>
           ELSE /\ fetches' = [fetches EXCEPT !["header"] = o, !["footer"] = "pending"]
                /\ fetchCount' = [fetchCount EXCEPT !["footer"] = @ + 1]
                /\ loaded' = [loaded EXCEPT !["header"] = Flag(r.ok)]
                /\ pc' = "await_footer"
                /\ errors' = errors
    /\ UNCHANGED <<script, pathname, page, headerFrag, footerFrag, calls, wired,
                   classes, navActive, isDriverMode, href, prevented>>

\* The footer fetch settles: loadComponent('footer') and loadComponents
\* return, and initialize runs to its end.
FooterLoaded ==
    /\ script = "components"
    /\ pc = "await_footer"
    /\ href = "none"
    /\ \E o \in Outcomes :
        LET r    == loadComponent(o, Placeholder("footer"), page)
            cont == Inject(content, "footer", r.ok)
        IN  /\ fetches' = [fetches EXCEPT !["footer"] = o]
            /\ content' = cont
            /\ IF r.threw
               THEN /\ errors' = errors \cup {"initialize"}
                    /\ pc' = "done"
                    /\ UNCHANGED <<loaded, calls, wired, classes, navActive>>
               ELSE /\ loaded' = [loaded EXCEPT !["footer"] = Flag(r.ok)]
                    /\ InitializeRest(loaded["header"] = "true", r.ok, cont)
    /\ UNCHANGED <<script, pathname, page, headerFrag, footerFrag, fetchCount,
                   isDriverMode, href, prevented>>

(***************************************************************************)
(* js/main.js: the DOMContentLoaded handler and its fetch callbacks.       *)
(***************************************************************************)
MainDOMContentLoaded ==
    /\ script = "main"
    /\ pc = "load"
    /\ href = "none"
    /\ IF ~IsAuthPage(script, pathname)
       THEN /\ fetches' = [c \in Fragments |-> "pending"]
            /\ fetchCount' = [c \in Fragments |-> fetchCount[c] + 1]
            /\ wired' = wired \cup setupAuthForms(Dom) \cup setupLogout
            /\ UNCHANGED <<calls, classes, errors>>
       ELSE LET ps == initializePageSpecifics(classes, Dom) IN
            /\ calls' = Bump(calls, {"initializePageSpecifics"})
            /\ classes' = ps.classes
            /\ IF ps.threw
               THEN /\ wired' = wired \cup ps.wired
                    /\ errors' = errors \cup {"DOMContentLoaded"}
               ELSE /\ wired' = wired \cup ps.wired \cup setupAuthForms(Dom)
                                      \cup setupLogout
                    /\ errors' = errors
            /\ UNCHANGED <<fetches, fetchCount>>
    /\ pc' = "done"
    /\ UNCHANGED <<script, pathname, page, headerFrag, footerFrag, content, loaded,
                   navActive, isDriverMode, href, prevented>>

\* fetch('/components/header.html') settles: the .then chain, or .catch.
MainHeaderThen ==
    /\ script = "main"
    /\ fetches["header"] = "pending"
    /\ href = "none"
    /\ \E o \in Outcomes :
        LET ok   == o = "ok" /\ Placeholder("header") \in page
            cont == Inject(content, "header", ok)
        IN  /\ fetches' = [fetches EXCEPT !["header"] = o]
            /\ content' = cont
            /\ IF ok
               THEN /\ wired' = wired \cup initializeSideMenu(DomOf(page, headerFrag, cont))
                    /\ calls' = Bump(calls, {"initializeSideMenu"})
               ELSE UNCHANGED <<wired, calls>>
    /\ UNCHANGED <<script, pathname, page, headerFrag, footerFrag, pc, fetchCount,
                   loaded, classes, navActive, isDriverMode, href, prevented, errors>>

\* fetch('/components/footer.html') settles: the .then chain, or .catch.
MainFooterThen ==
    /\ script = "main"
    /\ fetches["footer"] = "pending"
    /\ href = "none"
    /\ \E o \in Outcomes :
        LET ok   == o = "ok" /\ Placeholder("footer") \in page
            cont == Inject(content, "footer", ok)
        IN  /\ fetches' = [fetches EXCEPT !["footer"] = o]
            /\ content' = cont
            /\ IF ok
               THEN /\ navActive' = updateActiveNav(currentPageFileName(pathname),
                                                    NavKeysOf(footerFrag, cont),
                                                    footerFrag.active)
                    /\ calls' = Bump(calls, {"updateActiveNav"})
               ELSE UNCHANGED <<navActive, calls>>
    /\ UNCHANGED <<script, pathname, page, headerFrag, footerFrag, pc, fetchCount,
                   loaded, wired, classes, isDriverMode, href, prevented, errors>>

(***************************************************************************)
(* User events.  A click runs the target's own listener, then the          *)
(* document's; an exception in one listener does not stop the next.        *)
(***************************************************************************)
\* Variant: the panel is not asked whether it holds the target.
InPanel_Never(t, dom) == FALSE

\* sideMenu.contains(target): the logout button sits in the side menu.
InPanel(t, dom) == "sideMenu" \in dom /\ t \in {"sideMenu", "logoutButton"}

\* Variant: the toggle button is not asked whether it holds the target.
InToggle_Never(t, dom) == FALSE

\* menuToggle.contains(target)
InToggle(t, dom) == "menuToggle" \in dom /\ t \in {"menuToggle", "menuIcon", "closeIcon"}

\* initializeSideMenu, the document listener, on a click at t.
outsideClick(t, cl, dom, w) ==
    IF /\ <<"document", "outside">> \in w
       /\ "sideMenu" \in dom
       /\ "menuToggle" \in dom
       /\ ~InPanel(t, dom)
       /\ ~InToggle(t, dom)
       /\ "hidden" \notin cl["sideMenu"]
    THEN RunOps(closeMenu, cl, dom)
    ELSE [classes |-> cl, threw |-> FALSE]

LoginTarget(s) == IF s = "components" THEN "login.html" ELSE "/pages/login.html"

\* Variant: every form redirects to the index page.
FormTarget_AllIndex(s, f) ==
    IF s = "components" THEN "index.html" ELSE "/pages/index.html"

FormTarget(s, f) ==
    IF s = "components"
    THEN (IF f = "createAccountForm" THEN "verify-code.html" ELSE "index.html")
    ELSE (IF f = "createAccountForm" THEN "/pages/verify-code.html"
          ELSE "/pages/index.html")

\* A click on one of the two mode buttons.
ClickModeButton(b) ==
    /\ href = "none"
    /\ b \in Dom
    /\ LET d  == IF <<b, "click">> \in wired THEN b = "driverModeBtn" ELSE isDriverMode
           r1 == IF <<b, "click">> \in wired
                 THEN RunOps(updateModeUI(d), classes, Dom)
                 ELSE [classes |-> classes, threw |-> FALSE]
           r2 == outsideClick(b, r1.classes, Dom, wired)
       IN  /\ isDriverMode' = d
           /\ classes' = r2.classes
           /\ errors' = errors \cup (IF r1.threw THEN {"mode.click"} ELSE {})
                               \cup (IF r2.threw THEN {"outside.click"} ELSE {})
    /\ prevented' = FALSE
    /\ UNCHANGED <<script, pathname, page, headerFrag, footerFrag, pc, fetches,
                   fetchCount, content, loaded, calls, wired, navActive, href>>

\* A click on the menu toggle button (or on an icon inside it).
ClickMenuToggle ==
    /\ href = "none"
    /\ "menuToggle" \in Dom
    /\ LET r1 == IF <<"menuToggle", "click">> \in wired
                 THEN RunOps(toggleMenu, classes, Dom)
                 ELSE [classes |-> classes, threw |-> FALSE]
           r2 == outsideClick("menuToggle", r1.classes, Dom, wired)
       IN  /\ classes' = r2.classes
           /\ errors' = errors \cup (IF r1.threw THEN {"toggle.click"} ELSE {})
                               \cup (IF r2.threw THEN {"outside.click"} ELSE {})
    /\ prevented' = FALSE
    /\ UNCHANGED <<script, pathname, page, headerFrag, footerFrag, pc, fetches,
                   fetchCount, content, loaded, calls, wired, navActive,
                   isDriverMode, href>>

\* A click inside the open side menu, not on the logout button.
ClickInsidePanel ==
    /\ href = "none"
    /\ "sideMenu" \in Dom
    /\ "hidden" \notin classes["sideMenu"]
    /\ LET r2 == outsideClick("sideMenu", classes, Dom, wired) IN
           /\ classes' = r2.classes
           /\ errors' = errors \cup (IF r2.threw THEN {"outside.click"} ELSE {})
    /\ prevented' = FALSE
    /\ UNCHANGED <<script, pathname, page, headerFrag, footerFrag, pc, fetches,
                   fetchCount, content, loaded, calls, wired, navActive,
                   isDriverMode, href>>

\* A click elsewhere in the document.
ClickOutside ==
    /\ href = "none"
    /\ LET r2 == outsideClick("body", classes, Dom, wired) IN
           /\ classes' = r2.classes
           /\ errors' = errors \cup (IF r2.threw THEN {"outside.click"} ELSE {})
    /\ prevented' = FALSE
    /\ UNCHANGED <<script, pathname, page, headerFrag, footerFrag, pc, fetches,
                   fetchCount, content, loaded, calls, wired, navActive,
                   isDriverMode, href>>

\* A click on the logout button.
ClickLogout ==
    /\ href = "none"
    /\ "logoutButton" \in Dom
    /\ "sideMenu" \in Dom => "hidden" \notin classes["sideMenu"]
    /\ LET r2 == outsideClick("logoutButton", classes, Dom, wired) IN
           /\ classes' = r2.classes
           /\ errors' = errors \cup (IF r2.threw THEN {"outside.click"} ELSE {})
    /\ IF <<"document", "logout">> \in wired
       THEN prevented' = TRUE /\ href' = LoginTarget(script)
       ELSE prevented' = FALSE /\ href' = href
    /\ UNCHANGED <<script, pathname, page, headerFrag, footerFrag, pc, fetches,
                   fetchCount, content, loaded, calls, wired, navActive,
                   isDriverMode>>

\* The submission of one of the three forms.
SubmitForm(f) ==
    /\ href = "none"
    /\ f \in Dom
    /\ IF <<f, "submit">> \in wired
       THEN prevented' = TRUE /\ href' = FormTarget(script, f)
       ELSE prevented' = FALSE /\ href' = "form-action"
    /\ UNCHANGED <<script, pathname, page, headerFrag, footerFrag, pc, fetches,
                   fetchCount, content, loaded, calls, wired, classes, navActive,
                   isDriverMode, errors>>

Next ==
    \/ initialize
    \/ HeaderLoaded
    \/ FooterLoaded
    \/ MainDOMContentLoaded
    \/ MainHeaderThen
    \/ MainFooterThen
    \/ \E b \in {"riderModeBtn", "driverModeBtn"} : ClickModeButton(b)
    \/ ClickMenuToggle
    \/ ClickInsidePanel
    \/ ClickOutside
    \/ ClickLogout
    \/ \E f \in FormElems : SubmitForm(f)

Spec == Init /\ [][Next]_vars

(***************************************************************************)
(* Properties.                                                             *)
(***************************************************************************)
Visible(e) == "hidden" \notin classes[e]

Settled(c) == fetches[c] \in Outcomes

Failed(c) == fetches[c] \in Outcomes \ {"ok"}

InitializerOf(c) == IF c = "header" THEN "initializeSideMenu" ELSE "updateActiveNav"

\* The bootstrap has nothing left to do for fragment c.
Finished(c) == IF script = "components" THEN pc = "done" ELSE Settled(c)

NonAuthFile == FileNameOf(script, pathname) \notin AUTH_PAGES

ModeWired == {<<"riderModeBtn", "click">>, <<"driverModeBtn", "click">>} \subseteq wired

\* C1: on a page that holds both mode buttons and both view containers, once
\* initializePageSpecifics has run exactly one of riderView and driverView is
\* visible, in every later state and after any clicks, and the step in which
\* initializePageSpecifics runs leaves the rider view the visible one.
C1_ExactlyOneView ==
    /\ []((ModeElems \subseteq page /\ calls["initializePageSpecifics"] >= 1)
            => (Visible("riderView") # Visible("driverView")))
    /\ [][(ModeElems \subseteq page /\ calls["initializePageSpecifics"] = 0
             /\ calls'["initializePageSpecifics"] = 1)
            => (Visible("riderView") /\ ~Visible("driverView"))']_vars

\* C1 witness: after a driver click on such a page the driver view alone shows.
C1_Witness ==
    /\ ModeElems \subseteq page
    /\ calls["initializePageSpecifics"] = 1
    /\ isDriverMode
    /\ Visible("driverView")
    /\ ~Visible("riderView")

ModeState == <<isDriverMode, [e \in ModeElems |-> classes[e]]>>

ViewsAfter(b) ==
    IF b = "driverModeBtn"
    THEN isDriverMode /\ Visible("driverView") /\ ~Visible("riderView")
    ELSE ~isDriverMode /\ Visible("riderView") /\ ~Visible("driverView")

\* C2: with the toggle wired and both views in the page, a click on the driver
\* button leaves the driver view visible and the rider view hidden, a click on
\* the rider button the inverse, whatever the mode was; and a click on the
\* button of the mode already set changes neither the flag, nor the views'
\* visibility, nor the buttons' styling.
C2_ClickSetsMode ==
    [][\A b \in {"riderModeBtn", "driverModeBtn"} :
        (ClickModeButton(b) /\ ModeWired /\ ModeElems \subseteq page)
            => /\ ViewsAfter(b)'
               /\ (isDriverMode = (b = "driverModeBtn")) => UNCHANGED ModeState]_vars

\* C2 witness: driver mode is set, styled and shown on a wired page.
C2_Witness ==
    /\ ModeWired
    /\ ModeElems \subseteq page
    /\ isDriverMode
    /\ Visible("driverView") /\ ~Visible("riderView")
    /\ classes["driverModeBtn"] = ActiveStyle
    /\ classes["riderModeBtn"] = InactiveStyle

\* C3: within a page load an initializer runs at most once; once the
\* bootstrap is through with a fragment whose load succeeded, its initializer
\* has run exactly once; and while the placeholder is unfilled (the load
\* failed, or has not succeeded) it has run zero times.
C3_InitializerOncePerLoad ==
    \A c \in Fragments :
        /\ calls[InitializerOf(c)] <= 1
        /\ (Finished(c) /\ fetches[c] = "ok" /\ content[c] = "markup")
              => calls[InitializerOf(c)] = 1
        /\ (Failed(c) \/ content[c] = "empty") => calls[InitializerOf(c)] = 0

\* C3 witness: the header load failed and its initializer never ran, the
\* footer load succeeded and its initializer ran once.
C3_Witness ==
    /\ Finished("header") /\ Finished("footer")
    /\ Failed("header") /\ calls["initializeSideMenu"] = 0
    /\ fetches["footer"] = "ok" /\ content["footer"] = "markup"
    /\ calls["updateActiveNav"] = 1

\* C4: for a file name outside the auth set, each fragment is fetched at most
\* once, both have been fetched exactly once when the bootstrap is done, and
\* a fetch that settled, failed or not, leaves the other one attempted, able
\* to succeed and followed by its own initializer.
C4_BothFetchedOnce ==
    NonAuthFile =>
        \A c \in Fragments :
            LET other == IF c = "header" THEN "footer" ELSE "header" IN
            /\ fetchCount[c] <= 1
            /\ pc = "done" => fetchCount[c] = 1
            /\ Settled(c) => fetchCount[other] = 1
            /\ (Failed(c) /\ Finished(other) /\ fetches[other] = "ok"
                  /\ Placeholder(other) \in page)
                 => (content[other] = "markup" /\ calls[InitializerOf(other)] = 1)

\* C4 witness: on a content page the header fetch failed, and the footer was
\* still fetched, filled in and followed by updateActiveNav.
C4_Witness ==
    /\ NonAuthFile
    /\ fetchCount["header"] = 1 /\ fetchCount["footer"] = 1
    /\ Failed("header")
    /\ content["footer"] = "markup"
    /\ calls["updateActiveNav"] = 1
    /\ pc = "done"

\* C5: for a file name in the auth set no fragment is ever fetched, the loaded
\* flags are never true (and are both false once loadComponents has
\* returned), initializeSideMenu and updateActiveNav never run, and when a
\* mode button is absent the bootstrap ends without an exception, with the
\* form and logout listeners attached.
C5_AuthPageSkipsFragments ==
    FileNameOf(script, pathname) \in AUTH_PAGES =>
        /\ \A c \in Fragments :
              /\ fetchCount[c] = 0
              /\ fetches[c] = "idle"
              /\ content[c] = "empty"
              /\ loaded[c] # "true"
              /\ (script = "components" /\ pc = "done") => loaded[c] = "false"
        /\ calls["initializeSideMenu"] = 0
        /\ calls["updateActiveNav"] = 0
        /\ (pc = "done" /\ ~({"riderModeBtn", "driverModeBtn"} \subseteq page))
              => /\ errors = {}
                 /\ setupLogout \subseteq wired
                 /\ setupAuthForms(page) \subseteq wired

\* C5 witness: an auth page without mode buttons finished its bootstrap.
C5_Witness ==
    /\ FileNameOf(script, pathname) \in AUTH_PAGES
    /\ "riderModeBtn" \notin page /\ "driverModeBtn" \notin page
    /\ pc = "done"
    /\ loaded = [c \in Fragments |-> "false"]
    /\ <<"loginForm", "submit">> \in wired

\* C6: on a non-auth page the two fetches are in flight together: while the
\* header fetch is pending the footer fetch has been issued too, never held
\* back until the header fetch settles.
C6_FooterNotHeldBack ==
    (NonAuthFile /\ pc # "load" /\ fetches["header"] = "pending")
        => fetches["footer"] # "idle"

\* C7: in components.js, once loadComponent has returned for a fragment, the
\* flag is true exactly when the fetch was ok and the placeholder holds the
\* markup; after a network error, a non-success status or an unreadable body
\* it is false and the placeholder is still empty; and no exception reaches
\* the caller: loadComponents goes on to the footer after a failed header,
\* and initialize is never rejected on a page whose mode elements are all
\* there or whose mode buttons are not.
C7_LoadComponentResult ==
    script = "components" =>
        /\ \A c \in Fragments :
              /\ loaded[c] # "unset" =>
                    (loaded[c] = "true" <=> (fetches[c] = "ok" /\ content[c] = "markup"))
              /\ Failed(c) => (loaded[c] = "false" /\ content[c] = "empty")
        /\ Settled("header") => (pc \in {"await_footer", "done"}
                                   /\ fetchCount["footer"] = 1)
        /\ "initialize" \in errors
              => ({"riderModeBtn", "driverModeBtn"} \subseteq page
                    /\ ~(ModeElems \subseteq page))

\* C7 witness: a header load failed on status, returned false and left the
\* placeholder that is there empty, and the footer load went ahead and filled
\* its own.
C7_Witness ==
    /\ script = "components"
    /\ fetches["header"] = "http_error"
    /\ "header-placeholder" \in page
    /\ loaded["header"] = "false" /\ content["header"] = "empty"
    /\ loaded["footer"] = "true" /\ content["footer"] = "markup"

\* C8: whatever elements are absent, no handler raises an exception, and the
\* bootstrap always gets to attach the form and logout listeners.
C8_NullGuarded ==
    /\ errors = {}
    /\ pc = "done" => (setupLogout \subseteq wired /\ setupAuthForms(Dom) \subseteq wired)

CurrentFile == Last(pathname)

NavRan == calls["updateActiveNav"] >= 1

\* C9: after updateActiveNav, with no account sub-page name among the
\* controls' page keys: on profile.html the 'account' control is active and
\* no other is; on index.html or an empty file name the 'home' control is
\* active; on each of the six account sub-pages the 'account' control is
\* active.
C9_ActiveNav ==
    (NavRan /\ footerFrag.keys \cap accountSubPages = {}) =>
        /\ (CurrentFile = <<"profile", HTML>> /\ "account" \in footerFrag.keys)
              => navActive = {"account"}
        /\ (CurrentFile \in {<<"index", HTML>>, <<>>} /\ "home" \in footerFrag.keys)
              => "home" \in navActive
        /\ ((\E sp \in accountSubPages : CurrentFile = <<sp, HTML>>)
              /\ "account" \in footerFrag.keys)
              => "account" \in navActive

\* C9 witness: on pages/profile.html a footer that came with every control
\* marked ends with 'account' alone active.
C9_Witness ==
    /\ NavRan
    /\ pathname = << <<"pages">>, <<"profile", HTML>> >>
    /\ footerFrag = [keys |-> {"home", "account", "wallet"},
                     active |-> {"home", "account", "wallet"}]
    /\ navActive = {"account"}

\* The claim's condition for a control keyed k to be active.
MayBeActive(k) ==
    LET cur == NormalizePage(CurrentFile) IN
    \/ cur = <<k>>
    \/ k = "account" /\ \E sp \in accountSubPages : cur = <<sp>>

\* C10 as claimed: after updateActiveNav at most one control is active, and
\* only a control whose key is the normalized page name or the 'account'
\* control on an account sub-page.
C10_AtMostOneActive ==
    NavRan => /\ Cardinality(navActive) <= 1
              /\ \A k \in navActive : MayBeActive(k)

\* C10 amended: after updateActiveNav a control is active only if its key is
\* the normalized page name or it is the 'account' control on an account
\* sub-page; at most one control is active unless an account sub-page's own
\* name is a control's key, and then on that page exactly that control and
\* the 'account' control are.
C10_ActiveOnlyIfMatch ==
    NavRan =>
        /\ \A k \in navActive : MayBeActive(k)
        /\ Cardinality(navActive) <= 2
        /\ Cardinality(navActive) = 2 =>
              \E sp \in accountSubPages \cap footerFrag.keys :
                  /\ NormalizePage(CurrentFile) = <<sp>>
                  /\ navActive = {sp, "account"}

\* C10 witness: on profile.html, with controls keyed 'profile' and 'account'
\* and every control marked in the markup, those two end up active.
C10_Witness ==
    /\ NavRan
    /\ CurrentFile = <<"profile", HTML>>
    /\ footerFrag.keys = NavKeyUniverse
    /\ footerFrag.active = NavKeyUniverse
    /\ navActive = {"profile", "account"}

\* The side menu is wired and its panel and toggle button are in the document.
MenuReady ==
    /\ <<"document", "outside">> \in wired
    /\ {"sideMenu", "menuToggle"} \subseteq Dom

\* C11: with the side menu wired, a click outside both the panel and the
\* toggle button (elsewhere in the document, or on a mode button) leaves the
\* panel closed, whether it was open or already closed, and a click inside the
\* open panel (the logout button included) leaves it open.
C11_OutsideClickCloses ==
    [][MenuReady =>
        /\ (ClickOutside \/ \E b \in {"riderModeBtn", "driverModeBtn"} : ClickModeButton(b))
              => ~Visible("sideMenu")'
        /\ (ClickInsidePanel \/ ClickLogout) => Visible("sideMenu")']_vars

\* C11 witness: the panel is open with the document listener attached, and
\* the document holds a target inside the panel and one outside it: the state
\* in which the claim's inside and outside clicks arrive.
C11_Witness ==
    /\ MenuReady
    /\ Visible("sideMenu")
    /\ "logoutButton" \in Dom
    /\ "driverModeBtn" \in Dom

\* C12: on a content page that holds the mode buttons their click listeners
\* are attached as soon as the DOMContentLoaded handler has run, whatever the
\* state of the header and footer fetches.
C12_ModeListenersAtOnce ==
    (NonAuthFile /\ pc # "load" /\ {"riderModeBtn", "driverModeBtn"} \subseteq page)
        => ModeWired

\* The bootstrap has run and no fetch callback is outstanding.
BootDone == pc = "done" /\ \A c \in Fragments : fetches[c] # "pending"

\* C13: initializePageSpecifics is never called twice in a page load, and
\* has been called exactly once when the bootstrap is over, on content pages
\* and auth pages alike and for every outcome of the two loads.
C13_PageSpecificsOnce ==
    /\ calls["initializePageSpecifics"] <= 1
    /\ BootDone => calls["initializePageSpecifics"] = 1

\* The page a form's submission is to lead to, as either script spells it.
TargetPages(f) ==
    IF f = "createAccountForm"
    THEN {"verify-code.html", "/pages/verify-code.html"}
    ELSE {"index.html", "/pages/index.html"}

\* C14: the submission of a form whose submit listener is attached calls
\* preventDefault and assigns the form's fixed target to location.href
\* (loginForm and verifyCodeForm the index page, createAccountForm the
\* verify-code page), and changes nothing else: no fetch is issued, no flag,
\* class or listener is touched.  Every form in the document has its listener
\* once the bootstrap has ended without an exception.
C14_SubmitRedirects ==
    /\ [][\A f \in FormElems :
            (SubmitForm(f) /\ <<f, "submit">> \in wired)
                => /\ prevented'
                   /\ href' \in TargetPages(f)
                   /\ UNCHANGED <<fetches, fetchCount, content, loaded, calls, wired,
                                  classes, navActive, isDriverMode, errors, pc>>]_vars
    /\ []((pc = "done" /\ errors \cap {"initialize", "DOMContentLoaded"} = {})
            => \A f \in FormElems \cap Dom : <<f, "submit">> \in wired)

\* C14 witness: createAccountForm was submitted, the default was prevented
\* and the page is leaving for the verify-code page, no fetch ever issued.
C14_Witness ==
    /\ <<"createAccountForm", "submit">> \in wired
    /\ prevented
    /\ href \in {"verify-code.html", "/pages/verify-code.html"}
    /\ fetchCount = [c \in Fragments |-> 0]

\* C15: with the toggle listener attached and the panel in the document, one
\* click on the toggle button flips the panel's visibility: the document
\* listener that receives the same click does not undo it.
C15_ToggleFlipsOnce ==
    [][(ClickMenuToggle /\ <<"menuToggle", "click">> \in wired /\ "sideMenu" \in Dom)
         => (Visible("sideMenu")' # Visible("sideMenu"))]_vars

\* C15 witness: the panel stands open after a toggle click, with the
\* document listener attached as well.
C15_Witness ==
    /\ <<"menuToggle", "click">> \in wired
    /\ <<"document", "outside">> \in wired
    /\ "sideMenu" \in Dom
    /\ Visible("sideMenu")
    /\ errors = {}

\* C16: in a document that holds the panel and both icons, starting from the
\* closed markup, the menu icon is visible exactly when the panel is hidden
\* and the close icon exactly when the panel is open, after any clicks.
C16_IconsInStep ==
    {"sideMenu", "menuIcon", "closeIcon"} \subseteq Dom =>
        /\ Visible("menuIcon") <=> ~Visible("sideMenu")
        /\ Visible("closeIcon") <=> Visible("sideMenu")

\* C16 witness: panel open, close icon shown, menu icon hidden.
C16_Witness ==
    /\ MenuElems \subseteq Dom
    /\ Visible("sideMenu")
    /\ Visible("closeIcon")
    /\ ~Visible("menuIcon")

====
